---- MODULE Spec2Model ----
(***************************************************************************)
(* Parameter search and per-context parameter cache of the nonnative field *)
(* gadgets (src/params.rs): ParamsSearching::solve, gen_params, get_params *)
(* and the HitRate statistics kept next to the cache.                      *)
(*                                                                         *)
(* Two specifications share the variables:                                 *)
(*   Spec        the cache: HitRate::init, get_params and HitRate::print   *)
(*               called in any order on a context (None or CS);            *)
(*   SpecSearch  one run of gen_params, the loop of solve taken one        *)
(*               iteration per step.                                       *)
(* In Spec every get_params call is also made on a second context on which *)
(* HitRate::init is never called (quiet), to compare the two.              *)
(***************************************************************************)
EXTENDS Integers, Sequences, FiniteSets, TLC

VARIABLES
    optimization_type,  \* cfg!(feature = "density-optimized"), fixed per build
    overflow_checks,    \* build profile: usize overflow panics (TRUE) or wraps
    cache_map,          \* ConstraintSystem::cache_map of the CS context
    call,               \* the most recent call: operation, context, field sizes
    ret,                \* what the most recent call returned
    stdout,             \* what the most recent call printed
    lookups,            \* number of get_params calls on CS that returned
    inits,              \* number of HitRate::init calls on CS
    init_at,            \* value of lookups at the latest HitRate::init on CS
    quiet,              \* a second CS context given the same get_params calls
                        \* and no HitRate::init: its cache_map and last return
    problem,            \* the ParamsSearching instance of the search run
    loc,                \* the locals of solve and the position of the run
    exclusive,          \* get_params holds the borrow of line 89 for the whole call
    borrow,             \* the caller holding the mutable borrow of the context
    callers,            \* per caller: position in get_params and its locals
    searched            \* per key: how often gen_params ran for it (line 101)

vars == <<optimization_type, overflow_checks, cache_map, call, ret, stdout,
          lookups, inits, init_at, quiet, problem, loc,
          exclusive, borrow, callers, searched>>

(***************************************************************************)
(* Bounds of the model.                                                    *)
(***************************************************************************)
MaxLookups == 3
MaxInits == 2
MaxSearchBaseBits == 40
MaxSearchTargetBits == 24
MaxCalls == 3

\* Field sizes the cache specification draws its calls from: a base field
\* below the subtraction of line 217, one with an empty candidate range,
\* and two with candidates.
BaseSizes == {11, 12, 20, 24}
TargetSizes == {16, 33}

\* The callers of get_params sharing the CS context, and the keys
\* <<base_bits, target_bits>> they ask for; the search for <<12, 16>> panics.
Callers == {"a", "b"}
CallerKeys == {<<20, 16>>, <<24, 33>>, <<12, 16>>}

\* Field sizes <<base_bits, target_bits>> of the search specification;
\* <<254, 256>> is the pair of the end-to-end example.
SearchInputs ==
    ((2 .. MaxSearchBaseBits) \X (0 .. MaxSearchTargetBits)) \cup {<<254, 256>>}

(***************************************************************************)
(* Option<T>, Box<dyn Any> and BTreeMap.                                   *)
(***************************************************************************)
None == << >>
Some(v) == << v >>
unwrap(o) == o[1]

Box(type, v) == [type |-> type, v |-> v]
downcast_ref(type, b) == IF b.type = type THEN Some(b.v) ELSE None

BTreeMap_new == << >>
insert(m, k, v) == [x \in (DOMAIN m) \cup {k} |-> IF x = k THEN v ELSE m[x]]
get(m, k) == IF k \in DOMAIN m THEN Some(m[k]) ELSE None

\* What a call yields: a value, unit, a panic, or (overflow checks off) a
\* run that goes on with wrapped 64-bit values, which the model does not follow.
Ok(v) == [kind |-> "Ok", why |-> "", val |-> Some(v)]
Unit == [kind |-> "Unit", why |-> "", val |-> None]
Panic(why) == [kind |-> "Panic", why |-> why, val |-> None]
Wrapped == [kind |-> "Wrapped", why |-> "subtract with overflow", val |-> None]

(***************************************************************************)
(* ParamsSearching                                                         *)
(***************************************************************************)
OptimizationType == {"Constraints", "Density"}

Surfeit == 10

ParamsSearching_new(base_field_prime_length, target_field_prime_bit_length, opt) ==
    [base_field_prime_length |-> base_field_prime_length,
     target_field_prime_bit_length |-> target_field_prime_bit_length,
     optimization_type |-> opt,
     num_of_limbs |-> None,
     limb_size |-> None]

\* The locals of solve with the margin of line 217 one short: base - 1 - surfeit.
solve_enter_short_margin(p) ==
    LET base == p.base_field_prime_length IN
    [pc |-> IF base < 1 + Surfeit THEN "sub_overflow" ELSE "loop",
     limb_size |-> 1,
     max_limb_size |-> IF base < 1 + Surfeit THEN 0
                       ELSE (base - 1 - Surfeit) \div 2,
     min_cost |-> None,
     min_cost_limb_size |-> None,
     min_cost_num_of_limbs |-> None]

\* The locals of solve before the loop (lines 211-219). The subtraction
\* base_field_prime_length - 1 - surfeit - 1 is on usize.
solve_enter(p) ==
    LET base == p.base_field_prime_length IN
    [pc |-> IF base < 1 + Surfeit + 1 THEN "sub_overflow" ELSE "loop",
     limb_size |-> 1,
     max_limb_size |-> IF base < 1 + Surfeit + 1 THEN 0
                       ELSE (base - 1 - Surfeit - 1) \div 2,
     min_cost |-> None,
     min_cost_limb_size |-> None,
     min_cost_num_of_limbs |-> None]

\* num_of_limbs rounded down instead of up.
num_of_limbs_floor(p, limb_size) ==
    p.target_field_prime_bit_length \div limb_size

num_of_limbs_of(p, limb_size) ==
    (p.target_field_prime_bit_length + limb_size - 1) \div limb_size

group_size_of(p, limb_size) ==
    (p.base_field_prime_length - 1 - Surfeit - 1) \div (2 * limb_size)

\* num_of_groups rounded down instead of up.
num_of_groups_floor(num_of_limbs, group_size) ==
    (2 * num_of_limbs - 1) \div group_size

num_of_groups_of(num_of_limbs, group_size) ==
    (2 * num_of_limbs - 1 + group_size - 1) \div group_size

\* this_cost with every group charged for a carry, the last one too.
this_cost_all_groups(opt, limb_size, num_of_limbs, num_of_groups) ==
    (IF opt = "Constraints"
        THEN 2 * num_of_limbs - 1
        ELSE (num_of_limbs * num_of_limbs) \div 2)
    +
    (IF opt = "Constraints"
        THEN num_of_groups + num_of_groups * (limb_size * 2 + 1 + 2 * Surfeit) + 1
        ELSE 3 * num_of_groups + num_of_groups * (limb_size * 2 + 1 + 2 * Surfeit) + 2)

this_cost_of(opt, limb_size, num_of_limbs, num_of_groups) ==
    (IF opt = "Constraints"
        THEN 2 * num_of_limbs - 1
        ELSE (num_of_limbs * num_of_limbs) \div 2)
    +
    (IF opt = "Constraints"
        THEN num_of_groups + (num_of_groups - 1) * (limb_size * 2 + 1 + 2 * Surfeit) + 1
        ELSE 3 * num_of_groups + (num_of_groups - 1) * (limb_size * 2 + 1 + 2 * Surfeit) + 2)

\* The iteration with the test of line 241 not strict: an equal cost replaces
\* the incumbent.
solve_body_not_strict(p, l) ==
    LET limb_size == l.limb_size
        num_of_limbs == num_of_limbs_of(p, limb_size)
        group_size == group_size_of(p, limb_size)
    IN  IF 2 * num_of_limbs < 1
            THEN [l EXCEPT !.pc = "sub_overflow"]
        ELSE IF group_size = 0
            THEN [l EXCEPT !.pc = "div_zero"]
        ELSE LET num_of_groups == num_of_groups_of(num_of_limbs, group_size) IN
             IF num_of_groups < 1
                THEN [l EXCEPT !.pc = "sub_overflow"]
             ELSE LET this_cost == this_cost_of(p.optimization_type, limb_size,
                                                num_of_limbs, num_of_groups)
                  IN  IF l.min_cost = None \/ this_cost <= unwrap(l.min_cost)
                         THEN [l EXCEPT !.min_cost = Some(this_cost),
                                        !.min_cost_limb_size = Some(limb_size),
                                        !.min_cost_num_of_limbs = Some(num_of_limbs),
                                        !.limb_size = limb_size + 1]
                         ELSE [l EXCEPT !.limb_size = limb_size + 1]

\* One iteration of the loop (lines 220-245) and the step of the range.
solve_body(p, l) ==
    LET limb_size == l.limb_size
        num_of_limbs == num_of_limbs_of(p, limb_size)
        group_size == group_size_of(p, limb_size)
    IN  IF 2 * num_of_limbs < 1
            THEN [l EXCEPT !.pc = "sub_overflow"]
        ELSE IF group_size = 0
            THEN [l EXCEPT !.pc = "div_zero"]
        ELSE LET num_of_groups == num_of_groups_of(num_of_limbs, group_size) IN
             IF num_of_groups < 1
                THEN [l EXCEPT !.pc = "sub_overflow"]
             ELSE LET this_cost == this_cost_of(p.optimization_type, limb_size,
                                                num_of_limbs, num_of_groups)
                  IN  IF l.min_cost = None \/ this_cost < unwrap(l.min_cost)
                         THEN [l EXCEPT !.min_cost = Some(this_cost),
                                        !.min_cost_limb_size = Some(limb_size),
                                        !.min_cost_num_of_limbs = Some(num_of_limbs),
                                        !.limb_size = limb_size + 1]
                         ELSE [l EXCEPT !.limb_size = limb_size + 1]

\* The results defaulting to zero when no candidate was recorded.
solve_exit_defaulting(p, l) ==
    [p EXCEPT !.num_of_limbs = IF l.min_cost_num_of_limbs = None THEN Some(0)
                               ELSE l.min_cost_num_of_limbs,
              !.limb_size = IF l.min_cost_limb_size = None THEN Some(0)
                            ELSE l.min_cost_limb_size]

\* After the loop (lines 248-249).
solve_exit(p, l) ==
    [p EXCEPT !.num_of_limbs = l.min_cost_num_of_limbs,
              !.limb_size = l.min_cost_limb_size]

\* The range 1..max_limb_size, exclusive of its end.
in_loop_exclusive(l) == l.pc = "loop" /\ l.limb_size < l.max_limb_size

\* The range 1..=max_limb_size of line 219 has a next element.
in_loop(l) == l.pc = "loop" /\ l.limb_size <= l.max_limb_size

RECURSIVE solve_loop(_, _)
solve_loop(p, l) == IF in_loop(l) THEN solve_loop(p, solve_body(p, l)) ELSE l

\* solve as a whole: the instance afterwards, and the arithmetic fault that
\* stopped it, if any.
solve(p) ==
    LET l == solve_loop(p, solve_enter(p)) IN
    IF l.pc = "loop"
        THEN [problem |-> solve_exit(p, l), fault |-> "none"]
        ELSE [problem |-> p, fault |-> l.pc]

\* The return with the two fields of lines 160-161 exchanged.
gen_return_swapped(p, fault) ==
    IF fault = "sub_overflow"
        THEN IF overflow_checks THEN Panic("subtract with overflow") ELSE Wrapped
    ELSE IF fault = "div_zero"
        THEN Panic("divide by zero")
    ELSE IF p.num_of_limbs = None \/ p.limb_size = None
        THEN Panic("unwrap on None")
    ELSE Ok([num_limbs |-> unwrap(p.limb_size),
             bits_per_limb |-> unwrap(p.num_of_limbs)])

\* Lines 159-162 of gen_params, after solve.
gen_return(p, fault) ==
    IF fault = "sub_overflow"
        THEN IF overflow_checks THEN Panic("subtract with overflow") ELSE Wrapped
    ELSE IF fault = "div_zero"
        THEN Panic("divide by zero")
    ELSE IF p.num_of_limbs = None \/ p.limb_size = None
        THEN Panic("unwrap on None")
    ELSE Ok([num_limbs |-> unwrap(p.num_of_limbs),
             bits_per_limb |-> unwrap(p.limb_size)])

gen_params(TargetField, BaseField) ==
    LET s == solve(ParamsSearching_new(BaseField, TargetField, optimization_type))
    IN  gen_return(s.problem, s.fault)

(***************************************************************************)
(* HitRate                                                                 *)
(***************************************************************************)
Contexts == {"None", "CS"}

TypeId_ParamsMap == "ParamsMap"
TypeId_HitRate == "HitRate"

\* init that stores the counter in a new map instead of the context's.
HitRate_init_new_map(cs, big_map) ==
    IF cs = "None"
        THEN big_map
        ELSE insert(BTreeMap_new, TypeId_HitRate,
                    Box(TypeId_HitRate, [hit |-> 0, miss |-> 0]))

\* HitRate::init (lines 23-35) on the cache_map of the context.
HitRate_init(cs, big_map) ==
    IF cs = "None"
        THEN big_map
        ELSE insert(big_map, TypeId_HitRate,
                    Box(TypeId_HitRate, [hit |-> 0, miss |-> 0]))

\* update with the test of line 43 inverted.
HitRate_update_inverted(pmap, hit) ==
    LET hit_rate == get(pmap, TypeId_HitRate)
        stat == IF hit_rate = None THEN None
                ELSE downcast_ref(TypeId_HitRate, unwrap(hit_rate))
    IN  IF stat # None
            THEN insert(pmap, TypeId_HitRate,
                        Box(TypeId_HitRate,
                            IF ~hit THEN [unwrap(stat) EXCEPT !.hit = @ + 1]
                                   ELSE [unwrap(stat) EXCEPT !.miss = @ + 1]))
            ELSE pmap

\* update that puts the counter back under the TypeId of the ParamsMap.
HitRate_update_wrong_slot(pmap, hit) ==
    LET hit_rate == get(pmap, TypeId_HitRate)
        stat == IF hit_rate = None THEN None
                ELSE downcast_ref(TypeId_HitRate, unwrap(hit_rate))
    IN  IF stat # None
            THEN insert(pmap, TypeId_ParamsMap,
                        Box(TypeId_HitRate,
                            IF hit THEN [unwrap(stat) EXCEPT !.hit = @ + 1]
                                   ELSE [unwrap(stat) EXCEPT !.miss = @ + 1]))
            ELSE pmap

\* update that installs a counter when none is stored.
HitRate_update_installing(pmap, hit) ==
    LET hit_rate == get(pmap, TypeId_HitRate)
        stat == IF hit_rate = None THEN None
                ELSE downcast_ref(TypeId_HitRate, unwrap(hit_rate))
    IN  IF stat # None
            THEN insert(pmap, TypeId_HitRate,
                        Box(TypeId_HitRate,
                            IF hit THEN [unwrap(stat) EXCEPT !.hit = @ + 1]
                                   ELSE [unwrap(stat) EXCEPT !.miss = @ + 1]))
            ELSE insert(pmap, TypeId_HitRate,
                        Box(TypeId_HitRate,
                            IF hit THEN [hit |-> 1, miss |-> 0]
                                   ELSE [hit |-> 0, miss |-> 1]))

\* HitRate::update (lines 38-50).
HitRate_update(pmap, hit) ==
    LET hit_rate == get(pmap, TypeId_HitRate)
        stat == IF hit_rate = None THEN None
                ELSE downcast_ref(TypeId_HitRate, unwrap(hit_rate))
    IN  IF stat # None
            THEN insert(pmap, TypeId_HitRate,
                        Box(TypeId_HitRate,
                            IF hit THEN [unwrap(stat) EXCEPT !.hit = @ + 1]
                                   ELSE [unwrap(stat) EXCEPT !.miss = @ + 1]))
            ELSE pmap

\* The quotient (hit as f64) / ((hit + miss) as f64): 0.0 / 0.0 is NaN.
f64_div(num, den) == [nan |-> (num = 0 /\ den = 0), num |-> num, den |-> den]

\* HitRate::print (lines 54-78): the line printed, if any.
HitRate_print(cs, big_map) ==
    IF cs = "None"
        THEN None
        ELSE LET hit_rate == get(big_map, TypeId_HitRate) IN
             IF hit_rate # None
                THEN LET stat == downcast_ref(TypeId_HitRate, unwrap(hit_rate)) IN
                     IF stat # None
                        THEN Some([hit |-> unwrap(stat).hit,
                                   miss |-> unwrap(stat).miss,
                                   rate |-> f64_div(unwrap(stat).hit,
                                                    unwrap(stat).hit + unwrap(stat).miss)])
                        ELSE None
                ELSE None

\* The hit that is recorded as a miss.
cache_hit_as_miss(big_map, params) ==
    [cache_map |-> HitRate_update(big_map, FALSE), ret |-> Ok(params)]

(***************************************************************************)
(* get_params                                                              *)
(***************************************************************************)
\* Lines 96-99: the key is in the map.
cache_hit(big_map, params) ==
    [cache_map |-> HitRate_update(big_map, TRUE), ret |-> Ok(params)]

\* The miss that stores a new map holding the one key, as lines 116 and 129
\* do, where line 103 clones the stored map.
cache_miss_fresh_map(big_map, map, key, gen) ==
    IF gen.kind # "Ok"
        THEN [cache_map |-> big_map, ret |-> gen]
        ELSE [cache_map |->
                 HitRate_update(
                     insert(big_map, TypeId_ParamsMap,
                            Box(TypeId_ParamsMap, insert(BTreeMap_new, key, unwrap(gen.val)))),
                     FALSE),
              ret |-> gen]

\* Lines 101-111, 114-124 and 127-137: gen_params, then the map `map` with
\* the key added is put back and a miss is recorded. A panic of gen_params
\* unwinds before anything is written.
cache_miss(big_map, map, key, gen) ==
    IF gen.kind # "Ok"
        THEN [cache_map |-> big_map, ret |-> gen]
        ELSE [cache_map |->
                 HitRate_update(
                     insert(big_map, TypeId_ParamsMap,
                            Box(TypeId_ParamsMap, insert(map, key, unwrap(gen.val)))),
                     FALSE),
              ret |-> gen]

\* The lookup keyed by the size of the base field alone.
get_params_cs_base_key(big_map, TargetField, BaseField) ==
    LET small_map == get(big_map, TypeId_ParamsMap)
        key == <<BaseField, BaseField>>
    IN  IF small_map # None
            THEN LET map == downcast_ref(TypeId_ParamsMap, unwrap(small_map)) IN
                 IF map # None
                    THEN LET params == get(unwrap(map), key) IN
                         IF params # None
                            THEN cache_hit(big_map, unwrap(params))
                            ELSE cache_miss(big_map, unwrap(map), key,
                                            gen_params(TargetField, BaseField))
                    ELSE cache_miss(big_map, BTreeMap_new, key,
                                    gen_params(TargetField, BaseField))
            ELSE cache_miss(big_map, BTreeMap_new, key,
                            gen_params(TargetField, BaseField))

\* Lines 89-138: the context has a constraint system.
get_params_cs(big_map, TargetField, BaseField) ==
    LET small_map == get(big_map, TypeId_ParamsMap)
        key == <<BaseField, TargetField>>
    IN  IF small_map # None
            THEN LET map == downcast_ref(TypeId_ParamsMap, unwrap(small_map)) IN
                 IF map # None
                    THEN LET params == get(unwrap(map), key) IN
                         IF params # None
                            THEN cache_hit(big_map, unwrap(params))
                            ELSE cache_miss(big_map, unwrap(map), key,
                                            gen_params(TargetField, BaseField))
                    ELSE cache_miss(big_map, BTreeMap_new, key,
                                    gen_params(TargetField, BaseField))
            ELSE cache_miss(big_map, BTreeMap_new, key,
                            gen_params(TargetField, BaseField))

\* get_params that takes the cache of the CS context whatever the context.
get_params_no_bypass(cs, big_map, TargetField, BaseField) ==
    get_params_cs(big_map, TargetField, BaseField)

\* get_params (lines 83-141).
get_params(cs, big_map, TargetField, BaseField) ==
    IF cs = "None"
        THEN [cache_map |-> big_map, ret |-> gen_params(TargetField, BaseField)]
        ELSE get_params_cs(big_map, TargetField, BaseField)

(***************************************************************************)
(* The cache specification                                                 *)
(***************************************************************************)
\* The ParamsMap stored in a cache_map, empty when none is stored.
ParamsCache(big_map) ==
    LET small_map == get(big_map, TypeId_ParamsMap)
        map == IF small_map = None THEN None
               ELSE downcast_ref(TypeId_ParamsMap, unwrap(small_map))
    IN  IF map # None THEN unwrap(map) ELSE BTreeMap_new

\* The HitRate stored in a cache_map, None when none is stored.
Counter(big_map) ==
    IF TypeId_HitRate \in DOMAIN big_map THEN Some(big_map[TypeId_HitRate].v) ELSE None

\* A call as recorded: cached tells whether a get_params call on CS found its
\* key in the ParamsMap.
Called(op, cs, base, target, cached) ==
    [op |-> op, cs |-> cs, base |-> base, target |-> target, cached |-> cached]

NoCall == Called("none", "None", 0, 0, FALSE)

Idle == [pc |-> "idle", limb_size |-> 1, max_limb_size |-> 0, min_cost |-> None,
         min_cost_limb_size |-> None, min_cost_num_of_limbs |-> None]

\* The locals of a caller that is not inside get_params.
AtRest == [pc |-> "idle", key |-> <<0, 0>>, map |-> BTreeMap_new, params |-> None,
           hit |-> FALSE, stat |-> None, ret |-> Unit, calls |-> 0]

\* No caller is inside get_params and the context is not borrowed.
NoCallers ==
    /\ exclusive = TRUE
    /\ borrow = None
    /\ callers = [c \in Callers |-> AtRest]
    /\ searched = [k \in CallerKeys |-> 0]

CallersFrame == UNCHANGED <<exclusive, borrow, callers, searched>>

\* A context with nothing stored, before any call.
Fresh == [cache_map |-> BTreeMap_new, ret |-> Unit]

Init ==
    /\ optimization_type \in OptimizationType
    /\ overflow_checks \in BOOLEAN
    /\ cache_map = BTreeMap_new
    /\ call = NoCall
    /\ ret = Unit
    /\ stdout = None
    /\ lookups = 0
    /\ inits = 0
    /\ init_at = 0
    /\ quiet = Fresh
    /\ problem = ParamsSearching_new(0, 0, optimization_type)
    /\ loc = Idle
    /\ NoCallers

\* A run that went on with wrapped values is not followed further.
Running == ret.kind # "Wrapped"

CallInit(cs) ==
    /\ Running
    /\ cs = "CS" => inits < MaxInits
    /\ cache_map' = HitRate_init(cs, cache_map)
    /\ call' = Called("init", cs, 0, 0, FALSE)
    /\ ret' = Unit
    /\ inits' = IF cs = "CS" THEN inits + 1 ELSE inits
    /\ init_at' = IF cs = "CS" THEN lookups ELSE init_at
    /\ stdout' = None
    /\ quiet' = [quiet EXCEPT !.ret = Unit]
    /\ UNCHANGED <<optimization_type, overflow_checks, lookups, problem, loc>>
    /\ CallersFrame

CallGetParams(cs, TargetField, BaseField) ==
    /\ Running
    /\ cs = "CS" => lookups < MaxLookups
    /\ LET r == get_params(cs, cache_map, TargetField, BaseField) IN
        /\ cache_map' = r.cache_map
        /\ ret' = r.ret
        /\ lookups' = IF cs = "CS" /\ r.ret.kind = "Ok" THEN lookups + 1 ELSE lookups
    /\ call' = Called("get_params", cs, BaseField, TargetField,
                     cs = "CS" /\ <<BaseField, TargetField>> \in DOMAIN ParamsCache(cache_map))
    /\ stdout' = None
    /\ quiet' = get_params(cs, quiet.cache_map, TargetField, BaseField)
    /\ UNCHANGED <<optimization_type, overflow_checks, inits, init_at, problem, loc>>
    /\ CallersFrame

CallPrint(cs) ==
    /\ Running
    /\ stdout' = HitRate_print(cs, cache_map)
    /\ call' = Called("print", cs, 0, 0, FALSE)
    /\ ret' = Unit
    /\ quiet' = [quiet EXCEPT !.ret = Unit]
    /\ UNCHANGED <<optimization_type, overflow_checks, cache_map, lookups, inits,
                   init_at, problem, loc>>
    /\ CallersFrame

Next ==
    \/ \E cs \in Contexts : CallInit(cs)
    \/ \E cs \in Contexts, t \in TargetSizes, b \in BaseSizes : CallGetParams(cs, t, b)
    \/ \E cs \in Contexts : CallPrint(cs)

Spec == Init /\ [][Next]_vars

(***************************************************************************)
(* The search specification: one run of gen_params                         *)
(***************************************************************************)
InitSearch ==
    /\ optimization_type \in OptimizationType
    /\ overflow_checks \in BOOLEAN
    /\ cache_map = BTreeMap_new
    /\ \E k \in SearchInputs :
          /\ call = Called("gen_params", "None", k[1], k[2], FALSE)
          /\ problem = ParamsSearching_new(k[1], k[2], optimization_type)
    /\ ret = Unit
    /\ stdout = None
    /\ lookups = 0
    /\ inits = 0
    /\ init_at = 0
    /\ quiet = Fresh
    /\ loc = [Idle EXCEPT !.pc = "new"]
    /\ NoCallers

SearchFrame == UNCHANGED <<optimization_type, overflow_checks, cache_map, call, stdout,
                           lookups, inits, init_at, quiet,
                           exclusive, borrow, callers, searched>>

SolveStart ==
    /\ loc.pc = "new"
    /\ loc' = solve_enter(problem)
    /\ UNCHANGED <<problem, ret>>
    /\ SearchFrame

SolveIterate ==
    /\ in_loop(loc)
    /\ loc' = solve_body(problem, loc)
    /\ UNCHANGED <<problem, ret>>
    /\ SearchFrame

SolveFinish ==
    /\ loc.pc = "loop"
    /\ ~in_loop(loc)
    /\ problem' = solve_exit(problem, loc)
    /\ loc' = [loc EXCEPT !.pc = "done"]
    /\ UNCHANGED ret
    /\ SearchFrame

GenReturn ==
    /\ loc.pc \in {"done", "sub_overflow", "div_zero"}
    /\ ret' = gen_return(problem, IF loc.pc = "done" THEN "none" ELSE loc.pc)
    /\ loc' = [loc EXCEPT !.pc = "returned"]
    /\ UNCHANGED problem
    /\ SearchFrame

NextSearch ==
    \/ SolveStart
    \/ SolveIterate
    \/ SolveFinish
    \/ GenReturn

SpecSearch == InitSearch /\ [][NextSearch]_vars

\* The run taken step by step returns what gen_params computes in one go.
StepwiseAgrees ==
    loc.pc = "returned" => ret = gen_params(call.target, call.base)

(***************************************************************************)
(* Properties of the search (checked under SpecSearch)                     *)
(***************************************************************************)
Returned == loc.pc = "returned"
Params == unwrap(ret.val)

\* The inputs with a non-empty candidate range and a target of at least a bit.
ValidSearch == call.base >= Surfeit + 4 /\ call.target >= 1

\* C1: every Decomposition the search produces has room for the target field,
\* num_limbs * bits_per_limb >= target_bits, and the search produces one
\* whenever the candidate range is non-empty and target_bits >= 1.
Capacity ==
    (Returned /\ ValidSearch) =>
        /\ ret.kind = "Ok"
        /\ Params.num_limbs * Params.bits_per_limb >= call.target

CapacityWitness ==
    /\ Returned
    /\ call.base = 254 /\ call.target = 256
    /\ optimization_type = "Density"
    /\ ret.kind = "Ok"
    /\ Params.num_limbs * Params.bits_per_limb >= 256

\* The cost of a candidate as the specification states it.
Ceil(a, b) == IF a % b = 0 THEN a \div b ELSE (a \div b) + 1

StatedMaxLimbSize(base_bits) == (base_bits - 12) \div 2

StatedNumLimbs(target_bits, limb_size) == Ceil(target_bits, limb_size)

StatedCost(base_bits, target_bits, goal, limb_size) ==
    LET num_limbs == StatedNumLimbs(target_bits, limb_size)
        group_size == (base_bits - 12) \div (2 * limb_size)
        num_groups == Ceil(2 * num_limbs - 1, group_size)
    IN  IF goal = "Constraints"
            THEN (2 * num_limbs - 1) + num_groups
                 + (num_groups - 1) * (2 * limb_size + 21) + 1
            ELSE ((num_limbs * num_limbs) \div 2) + 3 * num_groups
                 + (num_groups - 1) * (2 * limb_size + 21) + 2

\* C6: the limb size returned has the least stated cost among the candidates
\* 1..=max_limb_size, and the number of limbs returned is that candidate's.
Optimality ==
    (Returned /\ ValidSearch) =>
        /\ ret.kind = "Ok"
        /\ Params.bits_per_limb \in 1 .. StatedMaxLimbSize(call.base)
        /\ \A c \in 1 .. StatedMaxLimbSize(call.base) :
              StatedCost(call.base, call.target, optimization_type, Params.bits_per_limb)
                 <= StatedCost(call.base, call.target, optimization_type, c)
        /\ Params.num_limbs = StatedNumLimbs(call.target, Params.bits_per_limb)

\* A run whose best candidate is neither the first nor the last of the range.
OptimalityWitness ==
    /\ Returned /\ ValidSearch /\ ret.kind = "Ok"
    /\ Params.bits_per_limb > 1
    /\ Params.bits_per_limb < StatedMaxLimbSize(call.base)
    /\ \E c \in 1 .. StatedMaxLimbSize(call.base) :
          StatedCost(call.base, call.target, optimization_type, Params.bits_per_limb)
             < StatedCost(call.base, call.target, optimization_type, c)

\* The candidates the loop has been through, and the least cost among them.
Seen == 1 .. (loc.limb_size - 1)
CostOf(c) == StatedCost(call.base, call.target, optimization_type, c)
Cheapest(S) == { c \in S : \A d \in S : CostOf(c) <= CostOf(d) }
Smallest(S) == CHOOSE c \in S : \A d \in S : c <= d

\* C7: at every point of the loop the incumbent is the smallest limb size
\* among the candidates of least cost seen so far, so a later candidate of
\* equal cost never replaces it and the search returns the smallest limb
\* size of minimal cost.
TieBreak ==
    /\ (ValidSearch /\ loc.pc \in {"loop", "done", "returned"} /\ Seen # {}) =>
            loc.min_cost_limb_size = Some(Smallest(Cheapest(Seen)))
    /\ (Returned /\ ValidSearch) =>
            /\ ret.kind = "Ok"
            /\ Params.bits_per_limb = Smallest(Cheapest(1 .. StatedMaxLimbSize(call.base)))

\* A run that returns while two candidates that are not neighbours share the
\* least cost.
TieBreakWitness ==
    /\ Returned /\ ValidSearch /\ ret.kind = "Ok"
    /\ \E c \in Cheapest(1 .. StatedMaxLimbSize(call.base)) :
          c > Params.bits_per_limb + 1

(***************************************************************************)
(* Properties of the cache (checked under Spec)                            *)
(***************************************************************************)
Lookup == call.op = "get_params" /\ call.cs = "CS"
Key == <<call.base, call.target>>
Cached == ParamsCache(cache_map)

\* C2: every get_params call on the CS context returns what gen_params
\* returns for the same field sizes, on a miss and on every later hit, and
\* every stored Decomposition is the one gen_params computes for its key.
CacheIdempotence ==
    /\ Lookup => ret = gen_params(call.target, call.base)
    /\ \A k \in DOMAIN Cached : Ok(Cached[k]) = gen_params(k[2], k[1])

\* A hit while another key is stored too.
CacheIdempotenceWitness ==
    /\ Lookup /\ call.cached /\ ret.kind = "Ok"
    /\ Cardinality(DOMAIN Cached) >= 2

\* HitRate::init ran once on the context, before any lookup returned.
ActivatedOnceAtStart == inits = 1 /\ init_at = 0

\* C3: with the statistics activated once on the fresh context, miss is the
\* number of keys in the ParamsMap (the lookups of distinct keys) and
\* hit + miss is the number of lookups that returned, so hit is the number
\* of repeated lookups.
HitMissAccounting ==
    ActivatedOnceAtStart =>
        /\ Counter(cache_map) # None
        /\ unwrap(Counter(cache_map)).miss = Cardinality(DOMAIN Cached)
        /\ unwrap(Counter(cache_map)).hit + unwrap(Counter(cache_map)).miss = lookups

\* Two lookups of distinct keys, then a repeated one.
HitMissAccountingWitness ==
    /\ ActivatedOnceAtStart
    /\ Lookup /\ call.cached
    /\ Counter(cache_map) = Some([hit |-> 1, miss |-> 2])

\* C4: a step of any call keeps every key of the ParamsMap, mapped to the
\* same Decomposition.
CacheMonotone ==
    [][\A k \in DOMAIN ParamsCache(cache_map) :
          /\ k \in DOMAIN ParamsCache(cache_map')
          /\ ParamsCache(cache_map')[k] = ParamsCache(cache_map)[k]]_vars

\* Two keys stored, HitRate::init called after a key was stored, then a hit.
CacheMonotoneWitness ==
    /\ Cardinality(DOMAIN Cached) >= 2
    /\ inits >= 1 /\ init_at >= 1
    /\ Lookup /\ call.cached

\* C5: get_params and gen_params with base_bits <= 2 * surfeit + 3 yield a
\* typed configuration error: no panic, no Decomposition.
BoundaryFailure ==
    (call.op = "get_params" /\ call.base <= 2 * Surfeit + 3) => ret.kind = "Err"

\* C8: on the None context get_params returns the result of gen_params, and
\* neither it nor HitRate::init changes the cache_map or counts as a lookup.
NullContextBypass ==
    [][(call'.cs = "None" /\ call'.op \in {"get_params", "init"}) =>
          /\ cache_map' = cache_map
          /\ lookups' = lookups
          /\ call'.op = "get_params" => ret' = gen_params(call'.target, call'.base)]_vars

\* A lookup on the None context while the CS context has a counter and does
\* not hold the key.
NullContextBypassWitness ==
    /\ call.op = "get_params" /\ call.cs = "None" /\ ret.kind = "Ok"
    /\ Counter(cache_map) # None
    /\ Key \notin DOMAIN Cached

\* C9: while HitRate::init was never called no counter is stored, and a
\* lookup returns what gen_params returns and stores it under its key.
TelemetryAbsentNoOp ==
    inits = 0 =>
        /\ Counter(cache_map) = None
        /\ Lookup =>
              /\ ret = gen_params(call.target, call.base)
              /\ ret.kind = "Ok" => get(Cached, Key) = ret.val

\* A miss and a hit without a counter.
TelemetryAbsentNoOpWitness ==
    /\ inits = 0
    /\ Lookup /\ call.cached /\ ret.kind = "Ok"
    /\ lookups >= 2

\* C10: HitRate::print prints nothing when no counter is stored or when
\* hit + miss = 0, and the current counts otherwise.
ReportGuard ==
    (call.op = "print" /\ call.cs = "CS") =>
        LET c == Counter(cache_map) IN
        IF c = None THEN stdout = None
        ELSE IF unwrap(c).hit + unwrap(c).miss = 0 THEN stdout = None
        ELSE /\ stdout # None
             /\ unwrap(stdout).hit = unwrap(c).hit
             /\ unwrap(stdout).miss = unwrap(c).miss

\* C11: HitRate::init on the CS context stores the counter hit = 0, miss = 0
\* whatever was stored before and leaves the ParamsMap as it is; a lookup of
\* a stored key after that counts as a hit.
ActivateResetsCounter ==
    [][/\ (call'.op = "init" /\ call'.cs = "CS" /\ inits' = inits + 1) =>
             /\ Counter(cache_map') = Some([hit |-> 0, miss |-> 0])
             /\ ParamsCache(cache_map') = ParamsCache(cache_map)
       /\ (call'.op = "get_params" /\ call'.cs = "CS" /\ lookups' = lookups + 1
             /\ inits >= 1 /\ <<call'.base, call'.target>> \in DOMAIN ParamsCache(cache_map)) =>
             /\ Counter(cache_map) # None
             /\ Counter(cache_map') =
                   Some([unwrap(Counter(cache_map)) EXCEPT !.hit = @ + 1])]_vars

\* A key stored, the counter at a miss reset by a second HitRate::init, then
\* a lookup of that key.
ActivateResetsCounterWitness ==
    /\ inits = 2 /\ init_at >= 1
    /\ Lookup /\ call.cached
    /\ Counter(cache_map) = Some([hit |-> 1, miss |-> 0])
    /\ Cardinality(DOMAIN Cached) >= 1

\* C12: the context with the statistics (activated at any points) and the
\* context without them, given the same get_params calls, return the same
\* at every call and hold the same ParamsMap in every state.
TelemetryObservational ==
    /\ call.op = "get_params" => quiet.ret = ret
    /\ ParamsCache(quiet.cache_map) = ParamsCache(cache_map)

\* HitRate::init after a first lookup, then a miss and a hit counted on one
\* context and not on the other.
TelemetryObservationalWitness ==
    /\ Lookup /\ call.cached /\ ret.kind = "Ok"
    /\ init_at >= 1
    /\ Counter(cache_map) = Some([hit |-> 1, miss |-> 1])
    /\ Counter(quiet.cache_map) = None
    /\ Cardinality(DOMAIN ParamsCache(quiet.cache_map)) = 2

(***************************************************************************)
(* Further properties of the search (checked under SpecSearch)             *)
(***************************************************************************)
Faulted == loc.pc \in {"sub_overflow", "div_zero"}

\* The iterations of the loop that ran to their end.
Iterations == loc.limb_size - 1

\* C14: when solve is through, both result fields hold a value if the
\* candidate range was non-empty (and target_bits >= 1, which then lets the
\* loop run through), and both are None if the range was empty.
ResultExistence ==
    /\ (loc.max_limb_size >= 1 /\ call.target >= 1) => ~Faulted
    /\ loc.pc = "done" =>
          /\ loc.max_limb_size >= 1 =>
                problem.num_of_limbs # None /\ problem.limb_size # None
          /\ loc.max_limb_size = 0 =>
                problem.num_of_limbs = None /\ problem.limb_size = None

\* solve through with an empty range.
ResultExistenceWitness ==
    /\ loc.pc = "done"
    /\ call.base = 13 /\ call.target >= 1
    /\ loc.max_limb_size = 0
    /\ problem.num_of_limbs = None /\ problem.limb_size = None

\* C15 as stated: for every base_bits >= 12 and every target_bits, solve
\* ends after exactly (base_bits - 12) / 2 iterations.
Terminated == loc.pc = "done" \/ (Returned /\ ret.kind \in {"Ok", "Panic"})

SafeIterations ==
    ValidSearch =>
        /\ ~Faulted
        /\ Returned => ret.kind = "Ok"
        /\ in_loop(loc) =>
              /\ group_size_of(problem, loc.limb_size) >= 1
              /\ num_of_limbs_of(problem, loc.limb_size) >= 1
              /\ num_of_groups_of(num_of_limbs_of(problem, loc.limb_size),
                                  group_size_of(problem, loc.limb_size)) >= 1

Underflowed == ret.kind \in {"Panic", "Wrapped"} /\ ret.why = "subtract with overflow"

\* C19 as stated: the iterations are safe, and target_bits = 0 or
\* base_bits < 12 makes a subtraction go below zero.
ArithmeticSafetyStated ==
    /\ SafeIterations
    /\ (Returned /\ (call.target = 0 \/ call.base < 12)) => Underflowed

\* C19: the iterations are safe, and base_bits < 12, or target_bits = 0 with
\* a non-empty candidate range (base_bits >= 14), makes a subtraction go
\* below zero.
ArithmeticSafety ==
    /\ SafeIterations
    /\ (Returned /\ (call.base < 12 \/ (call.target = 0 /\ call.base >= 14))) =>
            Underflowed

\* A run with target_bits = 0 stopped in its first iteration.
ArithmeticSafetyWitness ==
    /\ Returned
    /\ call.target = 0 /\ call.base >= 14
    /\ Iterations = 0
    /\ Underflowed

\* C20: every Decomposition returned has 1 <= bits_per_limb <=
\* (base_bits - 12) / 2, so 2 * bits_per_limb + surfeit + 2 <= base_bits and
\* the group size of the chosen limb size is at least 1.
LimbWidthBound ==
    (Returned /\ ret.kind = "Ok") =>
        /\ Params.bits_per_limb >= 1
        /\ Params.bits_per_limb <= (call.base - 12) \div 2
        /\ 2 * Params.bits_per_limb + Surfeit + 2 <= call.base
        /\ group_size_of(problem, Params.bits_per_limb) >= 1

\* A Decomposition whose limb size is the largest candidate.
LimbWidthBoundWitness ==
    /\ Returned /\ ret.kind = "Ok"
    /\ Params.bits_per_limb >= 2
    /\ Params.bits_per_limb = (call.base - 12) \div 2

(***************************************************************************)
(* The effect of one lookup (checked under Spec)                           *)
(***************************************************************************)
\* C18: a completed get_params on a context with a constraint system is a
\* hit exactly when its key was in the ParamsCache before the call. A hit
\* leaves the ParamsCache as it was and adds one to hit alone; a miss adds
\* exactly the key of the call, keeps every other entry, and adds one to
\* miss alone. Without a counter nothing is counted.
PerLookupEffect ==
    [][(call'.op = "get_params" /\ call'.cs = "CS" /\ lookups' = lookups + 1) =>
          LET key == <<call'.base, call'.target>>
              before == ParamsCache(cache_map)
              after == ParamsCache(cache_map')
          IN  /\ key \in DOMAIN before =>
                    /\ after = before
                    /\ ret' = Ok(before[key])
                    /\ Counter(cache_map) # None =>
                          Counter(cache_map') =
                              Some([unwrap(Counter(cache_map)) EXCEPT !.hit = @ + 1])
              /\ key \notin DOMAIN before =>
                    /\ DOMAIN after = DOMAIN before \cup {key}
                    /\ \A k \in DOMAIN before : after[k] = before[k]
                    /\ ret' = Ok(after[key])
                    /\ Counter(cache_map) # None =>
                          Counter(cache_map') =
                              Some([unwrap(Counter(cache_map)) EXCEPT !.miss = @ + 1])
              /\ Counter(cache_map) = None => Counter(cache_map') = None]_vars

\* A hit on the second of two cached keys, after both were counted as misses.
PerLookupEffectWitness ==
    /\ Lookup /\ call.cached /\ ret.kind = "Ok"
    /\ lookups = 3
    /\ Cardinality(DOMAIN Cached) = 2
    /\ Counter(cache_map) = Some([hit |-> 1, miss |-> 2])

(***************************************************************************)
(* Several callers of get_params on one context, one step of the code at   *)
(* a time. With exclusive the borrow of line 89 is held from the first     *)
(* step to the return; without it the steps of the callers interleave      *)
(* freely.                                                                 *)
(***************************************************************************)
\* RefCell::borrow_mut that never finds the cell borrowed.
try_borrow_mut_unchecked(holder, c) == Some(c)

\* RefCell::borrow_mut (lines 89-90): the borrow for caller c, or None when
\* the cell is borrowed already (borrow_mut then panics).
try_borrow_mut(holder, c) == IF holder = None THEN Some(c) ELSE None

\* Lines 91-95: the ParamsMap slot is read and the key looked up. A key
\* found goes on to HitRate::update(true), a key not found to gen_params
\* with the map read here.
find(big_map, l) ==
    LET small_map == get(big_map, TypeId_ParamsMap)
        map == IF small_map = None THEN None
               ELSE downcast_ref(TypeId_ParamsMap, unwrap(small_map))
        params == IF map = None THEN None ELSE get(unwrap(map), l.key)
    IN  IF params # None
            THEN [l EXCEPT !.pc = "update_read", !.params = params, !.hit = TRUE]
            ELSE [l EXCEPT !.pc = "gen",
                           !.map = IF map = None THEN BTreeMap_new ELSE unwrap(map),
                           !.hit = FALSE]

\* The map put back with the value under the exchanged key.
store_exchanged_key(big_map, l) ==
    insert(big_map, TypeId_ParamsMap,
           Box(TypeId_ParamsMap,
               insert(l.map, <<l.key[2], l.key[1]>>, unwrap(l.params))))

\* Lines 103-108 (116-122, 129-135): the map read earlier, with the key
\* added, is put back into the ParamsMap slot.
store(big_map, l) ==
    insert(big_map, TypeId_ParamsMap,
           Box(TypeId_ParamsMap, insert(l.map, l.key, unwrap(l.params))))

\* Lines 39-41 of HitRate::update: the counter is read.
update_read(big_map, l) ==
    LET hit_rate == get(big_map, TypeId_HitRate)
        stat == IF hit_rate = None THEN None
                ELSE downcast_ref(TypeId_HitRate, unwrap(hit_rate))
    IN  IF stat # None
            THEN [l EXCEPT !.pc = "update_write", !.stat = stat]
            ELSE [l EXCEPT !.pc = "return"]

\* Lines 42-48 of HitRate::update: the counter read earlier, with one
\* added, is put back.
update_write(big_map, l) ==
    insert(big_map, TypeId_HitRate,
           Box(TypeId_HitRate,
               IF l.hit THEN [unwrap(l.stat) EXCEPT !.hit = @ + 1]
                        ELSE [unwrap(l.stat) EXCEPT !.miss = @ + 1]))

RECURSIVE Started(_)
Started(S) ==
    IF S = {} THEN 0
    ELSE LET c == CHOOSE x \in S : TRUE IN callers[c].calls + Started(S \ {c})

InitCallers(excl) ==
    /\ optimization_type \in OptimizationType
    /\ overflow_checks \in BOOLEAN
    /\ inits \in {0, 1}
    /\ cache_map = IF inits = 1 THEN HitRate_init("CS", BTreeMap_new) ELSE BTreeMap_new
    /\ call = NoCall
    /\ ret = Unit
    /\ stdout = None
    /\ lookups = 0
    /\ init_at = 0
    /\ quiet = Fresh
    /\ problem = ParamsSearching_new(0, 0, optimization_type)
    /\ loc = Idle
    /\ exclusive = excl
    /\ borrow = None
    /\ callers = [c \in Callers |-> AtRest]
    /\ searched = [k \in CallerKeys |-> 0]

GetParamsFrame == UNCHANGED <<optimization_type, overflow_checks, call, ret, stdout,
                              inits, init_at, quiet, problem, loc, exclusive>>

\* Lines 88-90: the call begins; with exclusive it takes the borrow or,
\* finding the context borrowed, panics.
GetParamsBorrow(c, key) ==
    /\ callers[c].pc = "idle"
    /\ Started(Callers) < MaxCalls
    /\ IF exclusive /\ try_borrow_mut(borrow, c) = None
          THEN /\ callers' = [callers EXCEPT ![c].ret = Panic("already borrowed"),
                                             ![c].key = key,
                                             ![c].calls = @ + 1]
               /\ UNCHANGED borrow
          ELSE /\ callers' = [callers EXCEPT ![c] =
                                 [AtRest EXCEPT !.pc = "find", !.key = key,
                                                !.calls = callers[c].calls + 1]]
               /\ borrow' = IF exclusive THEN try_borrow_mut(borrow, c) ELSE borrow
    /\ UNCHANGED <<cache_map, lookups, searched>>
    /\ GetParamsFrame

GetParamsFind(c) ==
    /\ callers[c].pc = "find"
    /\ callers' = [callers EXCEPT ![c] = find(cache_map, callers[c])]
    /\ UNCHANGED <<cache_map, lookups, searched, borrow>>
    /\ GetParamsFrame

\* Line 101: gen_params; its panic unwinds out of get_params and drops the
\* borrow.
GetParamsGen(c) ==
    /\ callers[c].pc = "gen"
    /\ LET l == callers[c]
           gen == gen_params(l.key[2], l.key[1])
       IN  /\ searched' = [searched EXCEPT ![l.key] = @ + 1]
           /\ IF gen.kind = "Ok"
                 THEN /\ callers' = [callers EXCEPT ![c].pc = "store",
                                                    ![c].params = gen.val]
                      /\ UNCHANGED borrow
                 ELSE /\ callers' = [callers EXCEPT ![c].pc = "idle", ![c].ret = gen]
                      /\ borrow' = IF exclusive THEN None ELSE borrow
    /\ UNCHANGED <<cache_map, lookups>>
    /\ GetParamsFrame

GetParamsStore(c) ==
    /\ callers[c].pc = "store"
    /\ cache_map' = store(cache_map, callers[c])
    /\ callers' = [callers EXCEPT ![c].pc = "update_read"]
    /\ UNCHANGED <<lookups, searched, borrow>>
    /\ GetParamsFrame

UpdateRead(c) ==
    /\ callers[c].pc = "update_read"
    /\ callers' = [callers EXCEPT ![c] = update_read(cache_map, callers[c])]
    /\ UNCHANGED <<cache_map, lookups, searched, borrow>>
    /\ GetParamsFrame

UpdateWrite(c) ==
    /\ callers[c].pc = "update_write"
    /\ cache_map' = update_write(cache_map, callers[c])
    /\ callers' = [callers EXCEPT ![c].pc = "return"]
    /\ UNCHANGED <<lookups, searched, borrow>>
    /\ GetParamsFrame

\* Lines 99, 111 and 139: the value is returned and the borrow dropped.
GetParamsReturn(c) ==
    /\ callers[c].pc = "return"
    /\ callers' = [callers EXCEPT ![c].pc = "idle",
                                  ![c].ret = Ok(unwrap(callers[c].params))]
    /\ lookups' = lookups + 1
    /\ borrow' = IF exclusive THEN None ELSE borrow
    /\ UNCHANGED <<cache_map, searched>>
    /\ GetParamsFrame

NextCallers ==
    \/ \E c \in Callers, key \in CallerKeys : GetParamsBorrow(c, key)
    \/ \E c \in Callers : GetParamsFind(c)
    \/ \E c \in Callers : GetParamsGen(c)
    \/ \E c \in Callers : GetParamsStore(c)
    \/ \E c \in Callers : UpdateRead(c)
    \/ \E c \in Callers : UpdateWrite(c)
    \/ \E c \in Callers : GetParamsReturn(c)

InitLocked == InitCallers(TRUE)
InitUnlocked == InitCallers(FALSE)

SpecLocked == InitLocked /\ [][NextCallers]_vars
SpecUnlocked == InitUnlocked /\ [][NextCallers]_vars

\* The Search result for a key <<base_bits, target_bits>>.
SearchResult(key) == gen_params(key[2], key[1])

\* Every value in the ParamsCache, held by a caller or returned to one is
\* the Search result for its key.
ValuesAreSearchResults ==
    /\ \A k \in DOMAIN ParamsCache(cache_map) :
          k \in CallerKeys /\ Ok(ParamsCache(cache_map)[k]) = SearchResult(k)
    /\ \A c \in Callers :
          /\ callers[c].params # None =>
                Ok(unwrap(callers[c].params)) = SearchResult(callers[c].key)
          /\ callers[c].ret.kind = "Ok" => callers[c].ret = SearchResult(callers[c].key)
          /\ \A k \in DOMAIN callers[c].map :
                Ok(callers[c].map[k]) = SearchResult(k)

\* C13: with the borrow held for the whole call, in every interleaving of
\* the callers at most one of them is inside get_params, gen_params runs at
\* most once for a key it returns a value for, and whenever no call is in
\* progress and the counter was installed beforehand, miss is the number of
\* cached keys and hit + miss the number of completed lookups.
MutualExclusion ==
    exclusive =>
        /\ Cardinality({c \in Callers : callers[c].pc # "idle"}) <= 1
        /\ \A c \in Callers : callers[c].pc # "idle" => borrow = Some(c)
        /\ \A k \in CallerKeys : SearchResult(k).kind = "Ok" => searched[k] <= 1
        /\ \A k \in CallerKeys :
              (k \in DOMAIN ParamsCache(cache_map)) => searched[k] = 1
        /\ (borrow = None /\ inits = 1) =>
              /\ Counter(cache_map) # None
              /\ unwrap(Counter(cache_map)).miss =
                    Cardinality(DOMAIN ParamsCache(cache_map))
              /\ unwrap(Counter(cache_map)).hit + unwrap(Counter(cache_map)).miss =
                    lookups

\* Both callers completed lookups of the same key, one call was turned away
\* while the other held the borrow, and the key was searched for once.
MutualExclusionWitness ==
    /\ exclusive /\ borrow = None /\ inits = 1
    /\ lookups = 2
    /\ \A c \in Callers : callers[c].ret.kind = "Ok" /\ callers[c].key = <<20, 16>>
    /\ \E c \in Callers : callers[c].calls = 2
    /\ searched[<<20, 16>>] = 1
    /\ Counter(cache_map) = Some([hit |-> 1, miss |-> 1])

\* C17: without the borrow, with the steps of two callers interleaved, every
\* value stored in the ParamsCache or returned to a caller for a key is the
\* Search result for that key, whatever becomes of the counts.
UnlockedInterleaving ==
    ~exclusive => ValuesAreSearchResults

\* Both callers ran gen_params for the same key and returned its result,
\* and the counter shows one miss for the two completed lookups.
UnlockedInterleavingWitness ==
    /\ ~exclusive /\ inits = 1
    /\ \A c \in Callers : callers[c].pc = "idle" /\ callers[c].ret.kind = "Ok"
                          /\ callers[c].key = <<20, 16>>
    /\ searched[<<20, 16>>] = 2
    /\ lookups = 2
    /\ Counter(cache_map) = Some([hit |-> 0, miss |-> 1])
    /\ ValuesAreSearchResults

====
